---- MODULE Spec2Model ----
(***************************************************************************)
(* Model of SecondaryTableController (netd): a fixed pool of policy        *)
(* routing tables, one slot per interface, with a per-slot rule count.     *)
(* Every public operation of the controller is one action; the external    *)
(* commands (ip, iptables) and the UID-mark map are the environment, whose *)
(* exit status is chosen nondeterministically.                             *)
(***************************************************************************)
EXTENDS Integers, Sequences, FiniteSets, TLC

\* ------------------------------------------------------------------ sizes
INTERFACES_TRACKED == 2      \* slots of the pool (model size)
MaxRuleCount == 3            \* cap on mInterfaceRuleCount in the model
MaxInstalled == 1            \* cap on rules of one kind per table (SpecAllOk)
IFNAMSIZ == 16               \* <net/if.h>
BASE_TABLE_NUMBER == 100

Slots == 0 .. (INTERFACES_TRACKED - 1)

\* ------------------------------------------------------------ C strings
\* A C string is the sequence of its characters before the terminating 0.
EmptyName == << >>
Eth0 == << "e", "t", "h", "0" >>
\* a name that fills the buffer exactly, and one that is one char too long
NameFull == [i \in 1 .. IFNAMSIZ |-> "x"]
NameLong == [i \in 1 .. (IFNAMSIZ + 1) |-> "x"]

\* the interface names passed in: names of network interfaces, never empty
Ifaces == { Eth0, NameFull, NameLong }
LocalIfaces == { Eth0 }

Addr4 == << "1", ".", "2" >>
Addr6 == << "f", ":", ":", "1" >>
Addrs == { Addr4, Addr6 }

GwUnspec == << ":", ":" >>
GwHost == << "1", ".", "1" >>
Gateways == { GwUnspec, GwHost }

ADD == "add"
DEL == "del"
Actions == { ADD, DEL }

\* exit status of an external command: 0 is success, 1 stands for non-zero
CmdStatus == { 0, 1 }

\* the first n characters of s (all of s when it is shorter)
Take(s, n) == SubSeq(s, 1, IF Len(s) < n THEN Len(s) ELSE n)

\* strncmp(a, b, n) == 0: the strings agree on their first n characters,
\* the comparison stopping at a terminating 0
strncmpEq(a, b, n) == Take(a, n) = Take(b, n)

\* strncpy(dst, src, n); dst[n] = 0
strncpy(src, n) == Take(src, n)

\* ---------------------------------------------------------------- state
VARIABLES
    mInterfaceTable,       \* slot -> stored interface name
    mInterfaceRuleCount,   \* slot -> rule count
    op,                    \* the last operation called and its arguments
    ret,                   \* its return value
    cmds,                  \* the external commands it issued, in order
    uidCalls,              \* the calls it made to the UID-mark map
    msg,                   \* the message it sent to the client, if any
    errno,                 \* what the last operation set errno to, "" if it did not
    env,                   \* what the commands and the map calls returned
    installed              \* table -> kind -> rules added and not removed

vars == << mInterfaceTable, mInterfaceRuleCount, op, ret, cmds, uidCalls,
           msg, errno, env, installed >>

Kinds == { "route", "from", "local", "fwmark" }

NoMsg == [code |-> "none", text |-> "", useErrno |-> FALSE]
NoOp == [name |-> "init", iface |-> EmptyName, index |-> -1, action |-> ""]

\* SecondaryTableController::SecondaryTableController
Init ==
    /\ mInterfaceTable = [i \in Slots |-> EmptyName]
    /\ mInterfaceRuleCount = [i \in Slots |-> 0]
    /\ op = NoOp
    /\ ret = 0
    /\ cmds = << >>
    /\ uidCalls = << >>
    /\ msg = NoMsg
    /\ errno = ""
    /\ env = [exits |-> << >>, map |-> << >>]
    /\ installed = [i \in Slots |-> [k \in Kinds |-> 0]]

\* ------------------------------------------------------------ Table Pool
MinOf(S) == CHOOSE x \in S : \A y \in S : x <= y

\* findTableNumber that returns the last matching slot, not the first
findTableNumber_last(table, iface) ==
    LET hits == { i \in Slots : strncmpEq(iface, table[i], IFNAMSIZ + 1) }
    IN  IF hits = {} THEN -1
        ELSE CHOOSE x \in hits : \A y \in hits : y <= x

findTableNumber(table, iface) ==
    LET hits == { i \in Slots : strncmpEq(iface, table[i], IFNAMSIZ + 1) }
    IN  IF hits = {} THEN -1 ELSE MinOf(hits)

\* modifyRuleCount without the floor at 0
modifyRuleCount_noClamp(s, tableIndex, action) ==
    IF action = ADD
    THEN [s EXCEPT !.count[tableIndex] = @ + 1]
    ELSE IF s.count[tableIndex] - 1 < 1
         THEN [s EXCEPT !.count[tableIndex] = @ - 1,
                        !.table[tableIndex] = EmptyName]
         ELSE [s EXCEPT !.count[tableIndex] = @ - 1]

\* modifyRuleCount that, releasing a slot, clears the name of slot 0
modifyRuleCount_clearFirst(s, tableIndex, action) ==
    IF action = ADD
    THEN [s EXCEPT !.count[tableIndex] = @ + 1]
    ELSE IF s.count[tableIndex] - 1 < 1
         THEN [s EXCEPT !.count[tableIndex] = 0,
                        !.table[0] = EmptyName]
         ELSE [s EXCEPT !.count[tableIndex] = @ - 1]

\* s is the pair [table, count]
modifyRuleCount(s, tableIndex, action) ==
    IF action = ADD
    THEN [s EXCEPT !.count[tableIndex] = @ + 1]
    ELSE IF s.count[tableIndex] - 1 < 1
         THEN [s EXCEPT !.count[tableIndex] = 0,
                        !.table[tableIndex] = EmptyName]
         ELSE [s EXCEPT !.count[tableIndex] = @ - 1]

\* verifyTableIndex that checks the range only, not that the slot is named
verifyTableIndex_rangeOnly(table, tableIndex) ==
    IF tableIndex < 0 \/ tableIndex >= INTERFACES_TRACKED THEN -1 ELSE 0

verifyTableIndex(table, tableIndex) ==
    IF tableIndex < 0 \/ tableIndex >= INTERFACES_TRACKED
    THEN -1
    ELSE IF table[tableIndex] = EmptyName THEN -1 ELSE 0

getVersion(addr) ==
    IF \E i \in 1 .. Len(addr) : addr[i] = ":" THEN "-6" ELSE "-4"

\* ------------------------------------------------------ external commands
Cmd(prog, obj, action, family, dev, via, table, mark) ==
    [prog |-> prog, obj |-> obj, action |-> action, family |-> family,
     dev |-> dev, via |-> via, table |-> table, mark |-> mark]

\* the outcome of one call: the pool, the return value and what was emitted
Outcome(s, r, cm, u, m, e) ==
    [table |-> s.table, count |-> s.count, ret |-> r, cmds |-> cm,
     uid |-> u, msg |-> m, errno |-> e]

Pool == [table |-> mInterfaceTable, count |-> mInterfaceRuleCount]

\* ------------------------------------------------------------- operations
modifyRoute(s, action, iface, gateway, tableIndex, status) ==
    LET cmd == Cmd("ip", "route", action, "", iface, gateway # GwUnspec,
                   tableIndex + BASE_TABLE_NUMBER, 0)
        s1 == IF action = ADD
              THEN [s EXCEPT !.count[tableIndex] = @ + 1]
              ELSE IF s.count[tableIndex] - 1 < 1
                   THEN [s EXCEPT !.count[tableIndex] = 0,
                                  !.table[tableIndex] = EmptyName]
                   ELSE [s EXCEPT !.count[tableIndex] = @ - 1]
    IN  IF status # 0
        THEN Outcome(s, -1, << cmd >>, << >>,
                     [code |-> "OperationFailed",
                      text |-> "ip route modification failed",
                      useErrno |-> TRUE], "ENODEV")
        ELSE Outcome(modifyRuleCount(s1, tableIndex, action), 0, << cmd >>,
                     << >>,
                     [code |-> "CommandOkay", text |-> "Route modified",
                      useErrno |-> FALSE], "")

\* addRoute that, finding no free slot, takes slot 0 over instead of failing
addRouteOutcome_evict(s, iface, gateway, status) ==
    LET found == findTableNumber(s.table, iface)
        free == findTableNumber(s.table, EmptyName)
    IN  IF found = -1
        THEN modifyRoute(
                 [s EXCEPT !.table[IF free = -1 THEN 0 ELSE free] =
                               strncpy(iface, IFNAMSIZ)],
                 ADD, iface, gateway, IF free = -1 THEN 0 ELSE free, status)
        ELSE modifyRoute(s, ADD, iface, gateway, found, status)

addRouteOutcome(s, iface, gateway, status) ==
    LET found == findTableNumber(s.table, iface)
        free == findTableNumber(s.table, EmptyName)
    IN  IF found = -1
        THEN IF free = -1
             THEN Outcome(s, -1, << >>, << >>,
                          [code |-> "OperationFailed",
                           text |-> "Max number NATed", useErrno |-> TRUE],
                          "ENODEV")
             ELSE modifyRoute(
                      [s EXCEPT !.table[free] = strncpy(iface, IFNAMSIZ)],
                      ADD, iface, gateway, free, status)
        ELSE modifyRoute(s, ADD, iface, gateway, found, status)

\* removeRoute that allocates a slot for an untracked interface the way
\* addRoute does, instead of failing with "Interface not found"
removeRouteOutcome_alloc(s, iface, gateway, status) ==
    LET found == findTableNumber(s.table, iface)
        free == findTableNumber(s.table, EmptyName)
    IN  IF found = -1
        THEN IF free = -1
             THEN Outcome(s, -1, << >>, << >>,
                          [code |-> "OperationFailed",
                           text |-> "Interface not found",
                           useErrno |-> TRUE], "ENODEV")
             ELSE modifyRoute(
                      [s EXCEPT !.table[free] = strncpy(iface, IFNAMSIZ)],
                      DEL, iface, gateway, free, status)
        ELSE modifyRoute(s, DEL, iface, gateway, found, status)

removeRouteOutcome(s, iface, gateway, status) ==
    LET tableIndex == findTableNumber(s.table, iface)
    IN  IF tableIndex = -1
        THEN Outcome(s, -1, << >>, << >>,
                     [code |-> "OperationFailed",
                      text |-> "Interface not found", useErrno |-> TRUE],
                     "ENODEV")
        ELSE modifyRoute(s, DEL, iface, gateway, tableIndex, status)

\* modifyFromRule that updates the rule count before running the command
modifyFromRuleOutcome_early(s, tableIndex, action, addr, status) ==
    IF verifyTableIndex(s.table, tableIndex) # 0
    THEN Outcome(s, -1, << >>, << >>, NoMsg, "")
    ELSE LET cmd == Cmd("ip", "rule-from", action, getVersion(addr),
                        EmptyName, FALSE, tableIndex + BASE_TABLE_NUMBER, 0)
         IN  Outcome(modifyRuleCount(s, tableIndex, action),
                     IF status # 0 THEN -1 ELSE 0, << cmd >>, << >>, NoMsg,
                     "")

modifyFromRuleOutcome(s, tableIndex, action, addr, status) ==
    IF verifyTableIndex(s.table, tableIndex) # 0
    THEN Outcome(s, -1, << >>, << >>, NoMsg, "")
    ELSE LET cmd == Cmd("ip", "rule-from", action, getVersion(addr),
                        EmptyName, FALSE, tableIndex + BASE_TABLE_NUMBER, 0)
         IN  IF status # 0
             THEN Outcome(s, -1, << cmd >>, << >>, NoMsg, "")
             ELSE Outcome(modifyRuleCount(s, tableIndex, action), 0,
                          << cmd >>, << >>, NoMsg, "")

\* modifyLocalRoute that updates the rule count only when the command
\* succeeds, as modifyFromRule does
modifyLocalRouteOutcome_onSuccess(s, tableIndex, action, iface, status) ==
    IF verifyTableIndex(s.table, tableIndex) # 0
    THEN Outcome(s, -1, << >>, << >>, NoMsg, "")
    ELSE LET cmd == Cmd("ip", "route-local", action, "", iface, FALSE,
                        tableIndex + BASE_TABLE_NUMBER, 0)
         IN  IF status # 0
             THEN Outcome(s, status, << cmd >>, << >>, NoMsg, "")
             ELSE Outcome(modifyRuleCount(s, tableIndex, action), status,
                          << cmd >>, << >>, NoMsg, "")

modifyLocalRouteOutcome(s, tableIndex, action, iface, status) ==
    IF verifyTableIndex(s.table, tableIndex) # 0
    THEN Outcome(s, -1, << >>, << >>, NoMsg, "")
    ELSE LET cmd == Cmd("ip", "route-local", action, "", iface, FALSE,
                        tableIndex + BASE_TABLE_NUMBER, 0)
         IN  Outcome(modifyRuleCount(s, tableIndex, action), status,
                     << cmd >>, << >>, NoMsg, "")

\* the slot setFwmarkRule works on: the interface's, else a free one, else -1
fwmarkIndex(table, iface) ==
    LET found == findTableNumber(table, iface)
    IN  IF found # -1 THEN found ELSE findTableNumber(table, EmptyName)

\* setFwmarkRule that runs the NAT command whatever the fwmark rule command
\* returned
setFwmarkRuleOutcome_always(s, iface, add, status, natStatus) ==
    LET found == findTableNumber(s.table, iface)
        tableIndex == fwmarkIndex(s.table, iface)
        s1 == IF found = -1
              THEN [s EXCEPT !.table[tableIndex] = strncpy(iface, IFNAMSIZ)]
              ELSE s
        n == tableIndex + BASE_TABLE_NUMBER
        rule == Cmd("ip", "rule-fwmark", IF add THEN ADD ELSE DEL, "",
                    EmptyName, FALSE, n, n)
        nat == Cmd("iptables", "nat", IF add THEN "-A" ELSE "-D", "V4",
                   iface, FALSE, 0, n)
    IN  IF tableIndex = -1
        THEN Outcome(s, -1, << >>, << >>, NoMsg, "ENODEV")
        ELSE Outcome(s1, IF status # 0 THEN status ELSE natStatus,
                     << rule, nat >>, << >>, NoMsg, "")

setFwmarkRuleOutcome(s, iface, add, status, natStatus) ==
    LET found == findTableNumber(s.table, iface)
        tableIndex == fwmarkIndex(s.table, iface)
        s1 == IF found = -1
              THEN [s EXCEPT !.table[tableIndex] = strncpy(iface, IFNAMSIZ)]
              ELSE s
        n == tableIndex + BASE_TABLE_NUMBER
        rule == Cmd("ip", "rule-fwmark", IF add THEN ADD ELSE DEL, "",
                    EmptyName, FALSE, n, n)
        nat == Cmd("iptables", "nat", IF add THEN "-A" ELSE "-D", "V4",
                   iface, FALSE, 0, n)
    IN  IF tableIndex = -1
        THEN Outcome(s, -1, << >>, << >>, NoMsg, "ENODEV")
        ELSE IF status # 0
             THEN Outcome(s1, status, << rule >>, << >>, NoMsg, "")
             ELSE Outcome(s1, natStatus, << rule, nat >>, << >>, NoMsg,
                          "")

\* setUidRule that installs the firewall rule whatever the map returned
setUidRuleOutcome_ignoreMap(s, iface, uid_start, uid_end, add, mapOk, status) ==
    LET tableIndex == findTableNumber(s.table, iface)
        mark == tableIndex + BASE_TABLE_NUMBER
        call == [fn |-> IF add THEN "add" ELSE "remove",
                 start |-> uid_start, end |-> uid_end, mark |-> mark]
        cmd == Cmd("iptables", "mangle", IF add THEN "-A" ELSE "-D", "V4V6",
                   EmptyName, FALSE, 0, mark)
    IN  IF tableIndex = -1
        THEN Outcome(s, -1, << >>, << >>, NoMsg, "EINVAL")
        ELSE Outcome(s, status, << cmd >>, << call >>, NoMsg, "")

\* setUidRule that passes the table index to the map, not the mark
setUidRuleOutcome_rawMark(s, iface, uid_start, uid_end, add, mapOk, status) ==
    LET tableIndex == findTableNumber(s.table, iface)
        mark == tableIndex + BASE_TABLE_NUMBER
        call == [fn |-> IF add THEN "add" ELSE "remove",
                 start |-> uid_start, end |-> uid_end, mark |-> tableIndex]
        cmd == Cmd("iptables", "mangle", IF add THEN "-A" ELSE "-D", "V4V6",
                   EmptyName, FALSE, 0, mark)
    IN  IF tableIndex = -1
        THEN Outcome(s, -1, << >>, << >>, NoMsg, "EINVAL")
        ELSE IF ~mapOk
             THEN Outcome(s, -1, << >>, << call >>, NoMsg, "EINVAL")
             ELSE Outcome(s, status, << cmd >>, << call >>, NoMsg, "")

\* setUidRule that counts its rule in the slot's ruleCount
setUidRuleOutcome_counts(s, iface, uid_start, uid_end, add, mapOk, status) ==
    LET tableIndex == findTableNumber(s.table, iface)
        mark == tableIndex + BASE_TABLE_NUMBER
        call == [fn |-> IF add THEN "add" ELSE "remove",
                 start |-> uid_start, end |-> uid_end, mark |-> mark]
        cmd == Cmd("iptables", "mangle", IF add THEN "-A" ELSE "-D", "V4V6",
                   EmptyName, FALSE, 0, mark)
    IN  IF tableIndex = -1
        THEN Outcome(s, -1, << >>, << >>, NoMsg, "EINVAL")
        ELSE IF ~mapOk
             THEN Outcome(s, -1, << >>, << call >>, NoMsg, "EINVAL")
             ELSE Outcome(modifyRuleCount(s, tableIndex,
                                          IF add THEN ADD ELSE DEL),
                          status, << cmd >>, << call >>, NoMsg, "")

setUidRuleOutcome(s, iface, uid_start, uid_end, add, mapOk, status) ==
    LET tableIndex == findTableNumber(s.table, iface)
        mark == tableIndex + BASE_TABLE_NUMBER
        call == [fn |-> IF add THEN "add" ELSE "remove",
                 start |-> uid_start, end |-> uid_end, mark |-> mark]
        cmd == Cmd("iptables", "mangle", IF add THEN "-A" ELSE "-D", "V4V6",
                   EmptyName, FALSE, 0, mark)
    IN  IF tableIndex = -1
        THEN Outcome(s, -1, << >>, << >>, NoMsg, "EINVAL")
        ELSE IF ~mapOk
             THEN Outcome(s, -1, << >>, << call >>, NoMsg, "EINVAL")
             ELSE Outcome(s, status, << cmd >>, << call >>, NoMsg, "")

\* ---------------------------------------------------------------- actions
\* one call returns: the pool and the outputs take the outcome's values
Return(o, res) ==
    /\ \A i \in Slots : res.count[i] <= MaxRuleCount
    /\ mInterfaceTable' = res.table
    /\ mInterfaceRuleCount' = res.count
    /\ ret' = res.ret
    /\ cmds' = res.cmds
    /\ uidCalls' = res.uid
    /\ msg' = res.msg
    /\ errno' = res.errno
    /\ op' = o

\* the exit statuses of the commands the call ran (runCmd, execIptables) and
\* the results of its UID-mark map calls, in order
Replies(statuses, mapRets) ==
    env' = [exits |-> SubSeq(statuses, 1, Len(cmds')),
            map |-> SubSeq(mapRets, 1, Len(uidCalls'))]

Call(name, iface, index, action) ==
    [name |-> name, iface |-> iface, index |-> index, action |-> action]

addRoute(iface, gateway, status) ==
    /\ Return(Call("addRoute", iface, -1, ADD),
           addRouteOutcome(Pool, iface, gateway, status))
    /\ Replies(<< status >>, << >>)

removeRoute(iface, gateway, status) ==
    /\ Return(Call("removeRoute", iface, -1, DEL),
           removeRouteOutcome(Pool, iface, gateway, status))
    /\ Replies(<< status >>, << >>)

modifyFromRule(tableIndex, action, addr, status) ==
    /\ Return(Call("modifyFromRule", EmptyName, tableIndex, action),
           modifyFromRuleOutcome(Pool, tableIndex, action, addr, status))
    /\ Replies(<< status >>, << >>)

modifyLocalRoute(tableIndex, action, iface, status) ==
    /\ Return(Call("modifyLocalRoute", iface, tableIndex, action),
           modifyLocalRouteOutcome(Pool, tableIndex, action, iface, status))
    /\ Replies(<< status >>, << >>)

addFwmarkRule(iface, status, natStatus) ==
    /\ Return(Call("addFwmarkRule", iface, -1, ADD),
           setFwmarkRuleOutcome(Pool, iface, TRUE, status, natStatus))
    /\ Replies(<< status, natStatus >>, << >>)

removeFwmarkRule(iface, status, natStatus) ==
    /\ Return(Call("removeFwmarkRule", iface, -1, DEL),
           setFwmarkRuleOutcome(Pool, iface, FALSE, status, natStatus))
    /\ Replies(<< status, natStatus >>, << >>)

addUidRule(iface, mapOk, status) ==
    /\ Return(Call("addUidRule", iface, -1, ADD),
           setUidRuleOutcome(Pool, iface, 1000, 1999, TRUE, mapOk, status))
    /\ Replies(<< status >>, << mapOk >>)

removeUidRule(iface, mapOk, status) ==
    /\ Return(Call("removeUidRule", iface, -1, DEL),
           setUidRuleOutcome(Pool, iface, 1000, 1999, FALSE, mapOk, status))
    /\ Replies(<< status >>, << mapOk >>)

Indexes == -1 .. INTERFACES_TRACKED

Next ==
    \/ \E i \in Ifaces, g \in Gateways, st \in CmdStatus :
           addRoute(i, g, st) /\ UNCHANGED installed
    \/ \E i \in Ifaces, g \in Gateways, st \in CmdStatus :
           removeRoute(i, g, st) /\ UNCHANGED installed
    \/ \E x \in Indexes, a \in Actions, ad \in Addrs, st \in CmdStatus :
           modifyFromRule(x, a, ad, st) /\ UNCHANGED installed
    \/ \E x \in Indexes, a \in Actions, i \in LocalIfaces, st \in CmdStatus :
           modifyLocalRoute(x, a, i, st) /\ UNCHANGED installed
    \/ \E i \in Ifaces, st \in CmdStatus, ns \in CmdStatus :
           addFwmarkRule(i, st, ns) /\ UNCHANGED installed
    \/ \E i \in Ifaces, st \in CmdStatus, ns \in CmdStatus :
           removeFwmarkRule(i, st, ns) /\ UNCHANGED installed
    \/ \E i \in Ifaces, ok \in BOOLEAN, st \in CmdStatus :
           addUidRule(i, ok, st) /\ UNCHANGED installed
    \/ \E i \in Ifaces, ok \in BOOLEAN, st \in CmdStatus :
           removeUidRule(i, ok, st) /\ UNCHANGED installed

Spec == Init /\ [][Next]_vars

\* ------------------------------------------------ every command succeeds
\* The runs in which every external command and every UID-mark map call
\* succeeds and no kind of rule is removed from a table more often than it
\* was added to it.  installed counts, per kernel table and kind, the rules
\* that the commands of these runs have added and not yet removed.
KindOf(obj) ==
    CASE obj = "route" -> "route"
      [] obj = "rule-from" -> "from"
      [] obj = "route-local" -> "local"
      [] obj = "rule-fwmark" -> "fwmark"
      [] OTHER -> "none"

\* the slot the last call issued its first command for
LastIndex == cmds[1].table - BASE_TABLE_NUMBER

Track ==
    IF cmds' = << >> \/ KindOf(cmds'[1].obj) = "none"
    THEN UNCHANGED installed
    ELSE LET t == cmds'[1].table - BASE_TABLE_NUMBER
             k == KindOf(cmds'[1].obj)
             n == IF op'.action = ADD THEN installed[t][k] + 1
                  ELSE installed[t][k] - 1
         IN  /\ n \in 0 .. MaxInstalled
             /\ installed' = [installed EXCEPT ![t][k] = n]

NextAllOk ==
    \/ \E i \in Ifaces, g \in Gateways : addRoute(i, g, 0) /\ Track
    \/ \E i \in Ifaces, g \in Gateways : removeRoute(i, g, 0) /\ Track
    \/ \E x \in Indexes, a \in Actions, ad \in Addrs :
           modifyFromRule(x, a, ad, 0) /\ Track
    \/ \E x \in Indexes, a \in Actions, i \in LocalIfaces :
           modifyLocalRoute(x, a, i, 0) /\ Track
    \/ \E i \in Ifaces : addFwmarkRule(i, 0, 0) /\ Track
    \/ \E i \in Ifaces : removeFwmarkRule(i, 0, 0) /\ Track
    \/ \E i \in Ifaces : addUidRule(i, TRUE, 0) /\ Track
    \/ \E i \in Ifaces : removeUidRule(i, TRUE, 0) /\ Track

SpecAllOk == Init /\ [][NextAllOk]_vars

\* ------------------------------------------------------------ vocabulary
Occupied(i) == mInterfaceTable[i] # EmptyName
PoolFull == \A i \in Slots : Occupied(i)
Tracked(iface) == findTableNumber(mInterfaceTable, iface) # -1
IndexOf(iface) == findTableNumber(mInterfaceTable, iface)
PoolUnchanged ==
    /\ mInterfaceTable' = mInterfaceTable
    /\ mInterfaceRuleCount' = mInterfaceRuleCount
Rules(i) ==
    installed[i]["route"] + installed[i]["from"] + installed[i]["local"]
        + installed[i]["fwmark"]

\* ---------------------------------------------------------------- claims

\* C1: in every reachable state, a slot's interface name is empty if and
\* only if its ruleCount is 0.
C1_NameEmptyIffCountZero ==
    \A i \in Slots :
        (mInterfaceTable[i] = EmptyName) <=> (mInterfaceRuleCount[i] = 0)

\* C2: a successful addRoute raises the ruleCount of the interface's slot by
\* exactly 1, and a successful removeRoute lowers it by exactly 1, floored
\* at 0.
C2_RouteChangesCountByOne ==
    [][/\ (op'.name = "addRoute" /\ ret' = 0) =>
              mInterfaceRuleCount'[LastIndex'] =
                  mInterfaceRuleCount[LastIndex'] + 1
       /\ (op'.name = "removeRoute" /\ ret' = 0) =>
              mInterfaceRuleCount'[LastIndex'] =
                  IF mInterfaceRuleCount[LastIndex'] > 0
                  THEN mInterfaceRuleCount[LastIndex'] - 1 ELSE 0]_vars

\* C3: a successful addFwmarkRule (fwmark rule and NAT command both succeed)
\* raises the ruleCount of the interface's slot by 1, and a successful
\* removeFwmarkRule lowers it by 1, releasing the slot when it reaches 0.
C3_FwmarkChangesCountByOne ==
    [][/\ (op'.name = "addFwmarkRule" /\ ret' = 0) =>
              mInterfaceRuleCount'[LastIndex'] =
                  mInterfaceRuleCount[LastIndex'] + 1
       /\ (op'.name = "removeFwmarkRule" /\ ret' = 0) =>
              /\ mInterfaceRuleCount'[LastIndex'] =
                     IF mInterfaceRuleCount[LastIndex'] > 0
                     THEN mInterfaceRuleCount[LastIndex'] - 1 ELSE 0
              /\ mInterfaceRuleCount'[LastIndex'] = 0 =>
                     mInterfaceTable'[LastIndex'] = EmptyName]_vars

\* C4: when every command succeeds and no rule is removed more often than it
\* was added, a slot is occupied exactly while at least one rule added
\* through it (route, source rule, local route or fwmark rule) has not yet
\* been removed.
C4_OccupiedIffRuleRemains ==
    \A i \in Slots : Occupied(i) <=> Rules(i) > 0

\* C5: in every reachable state, no two slots hold the same non-empty
\* interface name, whatever the length of the names passed in.
C5_NamesUnique ==
    \A i, j \in Slots :
        (i # j /\ Occupied(i)) => mInterfaceTable[i] # mInterfaceTable[j]

\* C6: while an interface stays tracked its table index does not change: an
\* addRoute or addFwmarkRule on a tracked interface uses the index the
\* interface holds and occupies no further slot, and no operation moves an
\* occupied slot's name to another index.
C6_IndexStable ==
    [][/\ \A n \in Ifaces :
              (Tracked(n) /\ mInterfaceTable'[IndexOf(n)] # EmptyName)
                  => IndexOf(n)' = IndexOf(n)
       /\ (op'.name \in {"addRoute", "addFwmarkRule"}
              /\ Tracked(op'.iface)) =>
              /\ cmds' # << >>
              /\ LastIndex' = IndexOf(op'.iface)
              /\ \A i \in Slots : Occupied(i)' => Occupied(i)
       /\ \A i \in Slots :
              Occupied(i) =>
                  mInterfaceTable'[i] \in {mInterfaceTable[i], EmptyName}
      ]_vars

\* C7: when all slots hold a non-empty name, addRoute or addFwmarkRule for an
\* interface that is not tracked fails, issues no external command, and
\* leaves the name and ruleCount of every slot unchanged.
C7_FullPoolRejects ==
    [][(/\ PoolFull
        /\ op'.name \in {"addRoute", "addFwmarkRule"}
        /\ ~Tracked(op'.iface)) =>
           /\ ret' = -1
           /\ cmds' = << >>
           /\ PoolUnchanged]_vars

C7_Witness ==
    /\ PoolFull
    /\ op.name \in {"addRoute", "addFwmarkRule"}
    /\ ~Tracked(op.iface)
    /\ ret = -1
    /\ cmds = << >>

\* C8: removeRoute on an interface that is not tracked fails with the
\* interface-not-found error, issues no external command, and leaves every
\* slot's name and ruleCount unchanged.
C8_RemoveUntrackedFails ==
    [][(op'.name = "removeRoute" /\ ~Tracked(op'.iface)) =>
           /\ ret' = -1
           /\ msg' = [code |-> "OperationFailed",
                      text |-> "Interface not found", useErrno |-> TRUE]
           /\ cmds' = << >>
           /\ PoolUnchanged]_vars

C8_Witness ==
    /\ op.name = "removeRoute"
    /\ ~Tracked(op.iface)
    /\ msg.text = "Interface not found"
    /\ ret = -1
    /\ cmds = << >>
    /\ \E i \in Slots : Occupied(i) /\ mInterfaceRuleCount[i] > 0

C11_InvalidIndexRejected ==
    [][(/\ op'.name \in {"modifyFromRule", "modifyLocalRoute"}
        /\ (op'.index \notin Slots \/ mInterfaceTable[op'.index] = EmptyName))
           => /\ ret' = -1
              /\ cmds' = << >>
              /\ PoolUnchanged]_vars

\* an index operation was refused, on an index out of range or on a free
\* slot next to an occupied one
C11_Witness ==
    /\ op.name \in {"modifyFromRule", "modifyLocalRoute"}
    /\ op.index \in Slots
    /\ ~Occupied(op.index)
    /\ \E i \in Slots : Occupied(i)
    /\ ret = -1
    /\ cmds = << >>

\* C12: for addRoute, removeRoute and modifyFromRule, when the external
\* command returns non-zero the operation reports failure and no slot's
\* ruleCount changes; the ruleCount changes only when the command succeeds.
C12_CountOnlyOnSuccess ==
    [][op'.name \in {"addRoute", "removeRoute", "modifyFromRule"} =>
           /\ (env'.exits # << >> /\ env'.exits[1] # 0) =>
                  /\ ret' = -1
                  /\ mInterfaceRuleCount' = mInterfaceRuleCount
           /\ mInterfaceRuleCount' # mInterfaceRuleCount =>
                  /\ env'.exits = << 0 >>
                  /\ ret' = 0]_vars

\* a command of one of the three operations failed on a slot that has rules
C12_Witness ==
    /\ op.name \in {"removeRoute", "modifyFromRule"}
    /\ env.exits = << 1 >>
    /\ ret = -1
    /\ mInterfaceRuleCount[LastIndex] > 0

\* C13: modifyLocalRoute on a valid index updates the slot's ruleCount and
\* keeps the update whatever the command returns: a delete on a slot with
\* ruleCount 1 releases the slot even when the command fails, and the
\* command's status is returned.
C13_LocalRouteCountsFirst ==
    [][(/\ op'.name = "modifyLocalRoute"
        /\ op'.index \in Slots
        /\ mInterfaceTable[op'.index] # EmptyName) =>
           /\ Len(cmds') = 1
           /\ Len(env'.exits) = 1
           /\ ret' = env'.exits[1]
           /\ op'.action = ADD =>
                  /\ mInterfaceRuleCount'[op'.index] =
                         mInterfaceRuleCount[op'.index] + 1
                  /\ mInterfaceTable'[op'.index] =
                         mInterfaceTable[op'.index]
           /\ (op'.action = DEL /\ mInterfaceRuleCount[op'.index] > 1) =>
                  /\ mInterfaceRuleCount'[op'.index] =
                         mInterfaceRuleCount[op'.index] - 1
                  /\ mInterfaceTable'[op'.index] =
                         mInterfaceTable[op'.index]
           /\ (op'.action = DEL /\ mInterfaceRuleCount[op'.index] <= 1) =>
                  /\ mInterfaceRuleCount'[op'.index] = 0
                  /\ mInterfaceTable'[op'.index] = EmptyName]_vars

\* a local-route delete whose command failed has released its slot
C13_Witness ==
    /\ op.name = "modifyLocalRoute"
    /\ op.action = DEL
    /\ env.exits = << 1 >>
    /\ ret = 1
    /\ ~Occupied(op.index)
    /\ mInterfaceRuleCount[op.index] = 0

\* C14: setFwmarkRule issues the NAT command only after the fwmark rule
\* command of the same call has returned success; when the fwmark rule
\* command fails the NAT command is not issued, the call returns failure,
\* and no slot's ruleCount changes.
C14_NatOnlyAfterFwmark ==
    [][op'.name \in {"addFwmarkRule", "removeFwmarkRule"} =>
           /\ \A k \in 1 .. Len(cmds') :
                  cmds'[k].obj = "nat" =>
                      /\ k = 2
                      /\ cmds'[1].obj = "rule-fwmark"
                      /\ env'.exits[1] = 0
           /\ (env'.exits # << >> /\ env'.exits[1] # 0) =>
                  /\ Len(cmds') = 1
                  /\ cmds'[1].obj = "rule-fwmark"
                  /\ ret' # 0
                  /\ mInterfaceRuleCount' = mInterfaceRuleCount]_vars

\* the fwmark rule command failed and nothing followed it, on a slot with
\* rules
C14_Witness ==
    /\ op.name \in {"addFwmarkRule", "removeFwmarkRule"}
    /\ env.exits = << 1 >>
    /\ Len(cmds) = 1
    /\ ret # 0
    /\ mInterfaceRuleCount[LastIndex] > 0

\* the slot a call works on, in the state it is made in: the index passed
\* in, else the interface's slot, else the lowest free slot (-1: none)
LowestFree ==
    IF PoolFull THEN -1 ELSE MinOf({ i \in Slots : ~Occupied(i) })
TargetSlot(o) ==
    IF o.name \in {"modifyFromRule", "modifyLocalRoute"} THEN o.index
    ELSE IF \E i \in Slots : mInterfaceTable[i] = o.iface
         THEN MinOf({ i \in Slots : mInterfaceTable[i] = o.iface })
         ELSE IF o.name \in {"addRoute", "addFwmarkRule", "removeFwmarkRule"}
              THEN LowestFree ELSE -1
UidOps == {"addUidRule", "removeUidRule"}

\* C15: setUidRule issues its firewall (mangle) command only if the
\* interface is tracked and the UID-mark map call returned success; for an
\* untracked interface it fails without calling the map or the firewall,
\* and when the map call fails it returns failure and issues no command.
C15_UidRuleGuards ==
    [][op'.name \in UidOps =>
           /\ cmds' # << >> =>
                  /\ Tracked(op'.iface)
                  /\ env'.map = << TRUE >>
                  /\ Len(cmds') = 1
                  /\ cmds'[1].obj = "mangle"
           /\ ~Tracked(op'.iface) =>
                  /\ ret' = -1
                  /\ uidCalls' = << >>
                  /\ cmds' = << >>
           /\ (env'.map # << >> /\ ~env'.map[1]) =>
                  /\ ret' = -1
                  /\ cmds' = << >>]_vars

\* the map refused the range of a tracked interface: no firewall command
C15_Witness ==
    /\ op.name \in UidOps
    /\ Tracked(op.iface)
    /\ env.map = << FALSE >>
    /\ Len(uidCalls) = 1
    /\ ret = -1
    /\ cmds = << >>

\* C16: every command issued for the slot at index i carries the number
\* i + BASE_TABLE_NUMBER as routing-table number and as firewall mark:
\* route, source-rule and local-route commands as table, the fwmark rule as
\* fwmark and table, the NAT rule as mark, and setUidRule as the mark given
\* to the UID-mark map and to the MARK rule.
C16_TableAndMarkFromIndex ==
    [][LET n == TargetSlot(op') + BASE_TABLE_NUMBER
       IN  /\ (cmds' # << >> \/ uidCalls' # << >>) =>
                  TargetSlot(op') \in Slots
           /\ \A k \in 1 .. Len(cmds') :
                  /\ cmds'[k].obj \in {"route", "rule-from", "route-local"}
                         => cmds'[k].table = n
                  /\ cmds'[k].obj = "rule-fwmark" =>
                         (cmds'[k].table = n /\ cmds'[k].mark = n)
                  /\ cmds'[k].obj \in {"nat", "mangle"} =>
                         cmds'[k].mark = n
           /\ \A k \in 1 .. Len(uidCalls') : uidCalls'[k].mark = n]_vars

\* a UID rule was installed for the interface of slot 1 with its mark
C16_Witness ==
    /\ op.name \in UidOps
    /\ mInterfaceTable[1] = op.iface
    /\ mInterfaceTable[0] # op.iface
    /\ Len(cmds) = 1
    /\ cmds[1].mark = 1 + BASE_TABLE_NUMBER
    /\ uidCalls[1].mark = 1 + BASE_TABLE_NUMBER

\* a remove that updates the rule count of slot i is applied by the step
RemoveApplied(i) ==
    \/ /\ op'.name = "removeRoute"
       /\ env'.exits = << 0 >>
       /\ i = TargetSlot(op')
    \/ /\ op'.name = "modifyFromRule"
       /\ op'.action = DEL
       /\ env'.exits = << 0 >>
       /\ i = op'.index
    \/ /\ op'.name = "modifyLocalRoute"
       /\ op'.action = DEL
       /\ env'.exits # << >>
       /\ i = op'.index

\* C17: no slot's ruleCount is ever negative: a remove applied to a slot
\* whose ruleCount is 1 or 0 leaves the count at 0 and clears the slot's
\* name, so removes beyond zero are absorbed.
C17_CountNeverNegative ==
    [][\A i \in Slots :
           /\ mInterfaceRuleCount[i] >= 0
           /\ mInterfaceRuleCount'[i] >= 0
           /\ (RemoveApplied(i) /\ mInterfaceRuleCount[i] <= 1) =>
                  /\ mInterfaceRuleCount'[i] = 0
                  /\ mInterfaceTable'[i] = EmptyName]_vars

\* a successful remove has left its slot released with count 0
C17_Witness ==
    /\ op.name \in {"removeRoute", "modifyFromRule"}
    /\ op.action = DEL
    /\ env.exits = << 0 >>
    /\ ret = 0
    /\ mInterfaceRuleCount[LastIndex] = 0
    /\ ~Occupied(LastIndex)

\* C18: when addRoute or addFwmarkRule has to allocate a slot for an
\* untracked interface, it takes the lowest-index slot whose name is empty,
\* so a released slot is reusable by any interface.
C18_LowestFreeSlot ==
    [][(/\ op'.name \in {"addRoute", "addFwmarkRule"}
        /\ ~Tracked(op'.iface)
        /\ ~PoolFull) =>
           /\ cmds' # << >>
           /\ cmds'[1].table = LowestFree + BASE_TABLE_NUMBER
           /\ mInterfaceTable'[LowestFree] = Take(op'.iface, IFNAMSIZ)
           /\ \A i \in Slots \ {LowestFree} :
                  mInterfaceTable'[i] = mInterfaceTable[i]]_vars

\* slot 0, released while slot 1 stayed occupied by eth0, has been
\* allocated to another interface (the over-long name is never tracked, so
\* every add of it allocates)
C18_Witness ==
    /\ op.name \in {"addRoute", "addFwmarkRule"}
    /\ op.iface = NameLong
    /\ cmds # << >>
    /\ LastIndex = 0
    /\ mInterfaceTable[0] = NameFull
    /\ mInterfaceTable[1] = Eth0

\* C19: each operation changes at most one slot: the name and ruleCount of
\* every slot other than the one the call works on are unchanged, whatever
\* the command outcome.
C19_OtherSlotsUnchanged ==
    [][\A i \in Slots :
           i # TargetSlot(op') =>
               /\ mInterfaceTable'[i] = mInterfaceTable[i]
               /\ mInterfaceRuleCount'[i] = mInterfaceRuleCount[i]]_vars

\* slot 1 was released by a delete while slot 0 kept its name and rules
C19_Witness ==
    /\ op.name = "modifyFromRule"
    /\ op.action = DEL
    /\ op.index = 1
    /\ ret = 0
    /\ ~Occupied(1)
    /\ Occupied(0)
    /\ mInterfaceRuleCount[0] > 0

\* C20: setUidRule, add or remove and in every outcome, leaves every slot's
\* name and ruleCount unchanged.
C20_UidRuleLeavesPool ==
    [][op'.name \in UidOps => PoolUnchanged]_vars

\* a UID rule was installed for a tracked interface
C20_Witness ==
    /\ op.name = "addUidRule"
    /\ env.map = << TRUE >>
    /\ env.exits = << 0 >>
    /\ ret = 0
    /\ Len(cmds) = 1
    /\ mInterfaceRuleCount[cmds[1].mark - BASE_TABLE_NUMBER] > 0

====
